---- MODULE Spec2Model ----
(***************************************************************************)
(* The MQTT reservoir subscriber (src/mqtt_subscriber_report.py): the      *)
(* DailyAggregator store and its daily report, the Subscriber's message    *)
(* callback and main's receive-then-report control flow (Spec), the same   *)
(* aggregator under a caller that calls write_report again (SpecApi), the  *)
(* connection callbacks (SpecConn), and the publisher's loop over its      *)
(* input files, src/mqtt_publishers.py (SpecPub).                          *)
(*                                                                         *)
(* Numbers.  A Python object is a record [t, s, n]: t is its type tag, s   *)
(* its text (strings), n its number.  Floats are exact fixed-point         *)
(* numbers: a storage float JNum(n) stands for n / (1000 * Scale) TAF, so  *)
(* that the mean of up to MaxMsgs readings given in thousandths of a TAF   *)
(* is exact; NaN is the object JNaN (pandas writes it as an empty CSV cell *)
(* and a JSON null).  pct_of_total is carried in hundredths of a percent.  *)
(* Instants are hours since 2023-12-31T00:00Z and dates are day numbers    *)
(* (1 = 2024-01-01).                                                       *)
(***************************************************************************)
EXTENDS Integers, Sequences, FiniteSets, TLC

\* Most entries the store may hold (len(self.rows)) in a checked run.
MaxMsgs == 3

\* Most write_report calls a caller makes in a checked run.
MaxCalls == 2

\* Most times the client becomes connected in a checked run.
MaxConnects == 2

RECURSIVE Fact(_)
Fact(n) == IF n <= 1 THEN 1 ELSE n * Fact(n - 1)

\* Fixed-point denominator of the storage floats (see the header).
Scale == Fact(MaxMsgs)

RECURSIVE SumF(_, _)
SumF(f, S) == IF S = {} THEN 0
              ELSE LET x == CHOOSE y \in S : TRUE IN f[x] + SumF(f, S \ {x})

(***************************************************************************)
(* Python / JSON objects                                                   *)
(***************************************************************************)
JStr(x) == [t |-> "str", s |-> x, n |-> 0]
JNum(k) == [t |-> "num", s |-> "", n |-> k]
JNull   == [t |-> "null", s |-> "", n |-> 0]
JNaN    == [t |-> "nan", s |-> "", n |-> 0]
JInf    == [t |-> "inf", s |-> "", n |-> 1]
\* The key is not in the payload dict: payload[key] raises KeyError.
Absent  == [t |-> "absent", s |-> "", n |-> 0]
\* The result of an expression that raised.
Raise   == [t |-> "raise", s |-> "", n |-> 0]

\* json.loads(msg.payload.decode("utf-8")): a payload is either text that
\* is no JSON (json |-> FALSE) or a JSON object with these four keys.
Obj(r, ts, taf, af) ==
    [json |-> TRUE, reservoir_id |-> r, timestamp |-> ts, wml_taf |-> taf, wml_af |-> af]
NotJson == [json |-> FALSE, reservoir_id |-> Absent, timestamp |-> Absent,
            wml_taf |-> Absent, wml_af |-> Absent]

T1 == JStr("2024-01-01T00:00:00-08:00")
T3 == JStr("2024-01-03T00:00:00-08:00")
U2 == JStr("2024-01-02T00:00:00+00:00")
L2 == JStr("2024-01-01T16:00:00-08:00")

\* The bus payloads delivered in a checked run: publisher-style readings of
\* two reservoirs over three days, the same instant written with two UTC
\* offsets, and payloads with an empty or null reservoir_id, a NaN wml_taf,
\* a missing key or an unparseable field.
GoodPayloads ==
    { Obj(JStr("SHASTA"),   T1, JNum(0), JNum(0)),
      Obj(JStr("SHASTA"),   T1, JNum(1), JNum(1)),
      Obj(JStr("SHASTA"),   T3, JNum(2), JNum(2)),
      Obj(JStr("OROVILLE"), T1, JNum(0), JNum(0)),
      Obj(JStr("OROVILLE"), U2, JNum(2), JNum(3)),
      Obj(JStr("OROVILLE"), L2, JNum(1), JNum(1)) }
OddPayloads ==
    { Obj(JNull,            T1, JNum(1), JNum(1)),
      Obj(JStr(""),         T1, JNum(1), JNum(1)),
      Obj(JStr("SHASTA"),   T1, JNaN,    JNum(1)) }
BadPayloads ==
    { NotJson,
      Obj(JStr("SHASTA"), JStr("not-a-date"), JNum(1), JNum(1)),
      Obj(JStr("SHASTA"), Absent,             JNum(1), JNum(1)),
      Obj(Absent,         T1,                 JNum(1), JNum(1)),
      Obj(JStr("SHASTA"), T1,                 JStr("abc"), JNum(1)),
      Obj(JStr("SHASTA"), T1,                 Absent,  JNum(1)),
      Obj(JStr("SHASTA"), T1,                 JNum(1), JNaN),
      Obj(JStr("SHASTA"), T1,                 JNum(1), Absent) }
Payloads == GoodPayloads \cup OddPayloads \cup BadPayloads

(***************************************************************************)
(* DailyAggregator.add_message                                             *)
(***************************************************************************)
\* self.tz: the UTC offset of America/Los_Angeles on the sample's days, in
\* hours.  Nothing below reads it.
tz == -8

\* pd.to_datetime(x) of an ISO-8601 string: the instant and the string's own
\* UTC offset, in hours; anything else in the sample raises (None comes back
\* as None, and None.date() raises).
to_datetime(x) ==
    CASE x = T1 -> [ok |-> TRUE, utc |-> 32, off |-> 0 - 8]
      [] x = T3 -> [ok |-> TRUE, utc |-> 80, off |-> 0 - 8]
      [] x = U2 -> [ok |-> TRUE, utc |-> 48, off |-> 0]
      [] x = L2 -> [ok |-> TRUE, utc |-> 48, off |-> 0 - 8]
      [] OTHER  -> [ok |-> FALSE, utc |-> 0, off |-> 0]

\* ts.date(): the calendar date of the timestamp's own wall clock.
date(ts) == (ts.utc + ts.off) \div 24

\* float(x): a number, NaN (json.loads accepts the literal), or an error.
float(x) ==
    CASE x.t = "num" -> JNum(x.n * Scale)
      [] x.t = "nan" -> JNaN
      [] OTHER       -> Raise

\* int(x): int(float("nan")) raises ValueError.
int(x) ==
    CASE x.t = "num" -> JNum(x.n)
      [] OTHER       -> Raise

\* add_message with the entry appended as soon as its date is known and the
\* readings filled in afterwards: a bad reading leaves a partial entry.
add_message_early(rs, payload) ==
    LET ts  == to_datetime(payload.timestamp)
        taf == float(payload.wml_taf)
        af  == int(payload.wml_af)
        ok  == /\ payload.wml_taf # Absent /\ taf # Raise
               /\ payload.wml_af # Absent /\ af # Raise
    IN  IF payload.timestamp = Absent \/ ~ts.ok \/ payload.reservoir_id = Absent
        THEN [raised |-> TRUE, rows |-> rs]
        ELSE [raised |-> ~ok,
              rows |-> Append(rs, [date |-> date(ts),
                                   reservoir_id |-> payload.reservoir_id,
                                   storage_taf |-> IF ok THEN taf ELSE JNaN,
                                   storage_af |-> IF ok THEN af.n ELSE 0])]

\* The store after add_message(payload), or raised |-> TRUE with the store
\* untouched when an expression before the append raises.
add_message(rs, payload) ==
    LET ts  == to_datetime(payload.timestamp)
        taf == float(payload.wml_taf)
        af  == int(payload.wml_af)
    IN  IF payload.timestamp = Absent \/ ~ts.ok
             \/ payload.reservoir_id = Absent
             \/ payload.wml_taf = Absent \/ taf = Raise
             \/ payload.wml_af = Absent \/ af = Raise
        THEN [raised |-> TRUE, rows |-> rs]
        ELSE [raised |-> FALSE,
              rows |-> Append(rs, [date |-> date(ts),
                                   reservoir_id |-> payload.reservoir_id,
                                   storage_taf |-> taf,
                                   storage_af |-> af.n])]

(***************************************************************************)
(* Float arithmetic of the report (numpy / pandas)                         *)
(***************************************************************************)
\* numpy's round: n / d to the nearest integer, exact halves to the even one.
RoundHalfEven(n, d) ==
    LET nn == IF d < 0 THEN 0 - n ELSE n
        dd == IF d < 0 THEN 0 - d ELSE d
        q  == nn \div dd
        r  == nn - q * dd
    IN  IF 2 * r < dd THEN q
        ELSE IF 2 * r > dd THEN q + 1
        ELSE IF q % 2 = 0 THEN q ELSE q + 1

\* pandas' isna: None and NaN are missing values.
isna(x) == x.t \in {"null", "nan"}

\* Series.mean() of a group (vals: index -> float), NaN skipped.
mean(vals) ==
    LET J == {i \in DOMAIN vals : vals[i].t = "num"}
    IN  IF J = {} THEN JNaN
        ELSE JNum(SumF([i \in J |-> vals[i].n], J) \div Cardinality(J))

\* Series.sum() of a group (vals: index -> float), NaN skipped.
sum(vals) ==
    LET J == {i \in DOMAIN vals : vals[i].t = "num"}
    IN  JNum(SumF([i \in J |-> vals[i].n], J))

\* n / d (d > 0) to the nearest integer, exact halves away from zero.
RoundHalfAway(n, d) ==
    IF n >= 0 THEN (2 * n + d) \div (2 * d)
    ELSE 0 - ((2 * (0 - n) + d) \div (2 * d))

\* round with exact halves taken away from zero.
round_half_away(x) == IF x.t = "num" THEN JNum(RoundHalfAway(x.n, Scale) * Scale) ELSE x

\* x.round(k): to the multiples of 10^-k, which are the multiples of Scale
\* both for storage_af (k = 0, in AF) and for delta_taf (k = 3, in TAF).
round(x) == IF x.t = "num" THEN JNum(RoundHalfEven(x.n, Scale) * Scale) ELSE x

\* a - b
fsub(a, b) == IF a.t = "num" /\ b.t = "num" THEN JNum(a.n - b.n) ELSE JNaN

\* The share left as a fraction: a / b rounded to 2 places, without the
\* factor 100.
pct_fraction(a, b) ==
    IF a.t # "num" \/ b.t # "num" THEN JNaN
    ELSE IF b.n = 0 THEN (IF a.n = 0 THEN JNaN ELSE JInf)
    ELSE JNum(RoundHalfEven(100 * a.n, b.n))

\* (a / b * 100).round(2), in hundredths of a percent: 0/0 is NaN and
\* x/0 is infinite, neither raises.
pct(a, b) ==
    IF a.t # "num" \/ b.t # "num" THEN JNaN
    ELSE IF b.n = 0 THEN (IF a.n = 0 THEN JNaN ELSE JInf)
    ELSE JNum(RoundHalfEven(10000 * a.n, b.n))

(***************************************************************************)
(* DailyAggregator.write_report: the report frame                          *)
(***************************************************************************)
\* Python's order of the reservoir strings of the sample.
StrRank(s) == CASE s = "" -> 0 [] s = "OROVILLE" -> 1 [] s = "SHASTA" -> 2 [] OTHER -> 3

RECURSIVE SetToSeq(_)
SetToSeq(S) == IF S = {} THEN <<>>
               ELSE LET x == CHOOSE y \in S : TRUE IN <<x>> \o SetToSeq(S \ {x})

\* df.groupby(["date","reservoir_id"]): the distinct key pairs in key order;
\* a row whose key is missing (reservoir_id None) belongs to no group.
groupby(df) ==
    LET keys == { <<df[i].date, df[i].reservoir_id>> :
                    i \in {j \in DOMAIN df : ~isna(df[j].reservoir_id)} }
    IN  SortSeq(SetToSeq(keys),
                LAMBDA a, b : \/ a[1] < b[1]
                              \/ a[1] = b[1] /\ StrRank(a[2].s) < StrRank(b[2].s))

\* group keyed on the reservoir alone.
group_any_day(df, k) == {i \in DOMAIN df : df[i].reservoir_id = k[2]}

\* The rows of df in the group of key k.
group(df, k) == {i \in DOMAIN df : df[i].date = k[1] /\ df[i].reservoir_id = k[2]}

\* .agg(storage_taf=mean, storage_af=mean), then storage_af.round(0).astype(int)
agg(df) ==
    LET ks == groupby(df)
    IN  [g \in DOMAIN ks |->
           LET I == group(df, ks[g])
           IN  [date |-> ks[g][1],
                reservoir_id |-> ks[g][2],
                storage_taf |-> mean([i \in I |-> df[i].storage_taf]),
                storage_af |->
                    round(mean([i \in I |-> JNum(df[i].storage_af * Scale)])).n \div Scale]]

\* The frame left in the order of the groupby: day first, then reservoir.
sort_values_by_date(per) ==
    SortSeq(per, LAMBDA a, b :
                   \/ a.date < b.date
                   \/ /\ a.date = b.date
                      /\ StrRank(a.reservoir_id.s) < StrRank(b.reservoir_id.s))

\* per_res.sort_values(["reservoir_id","date"])
sort_values(per) ==
    SortSeq(per, LAMBDA a, b :
                   \/ StrRank(a.reservoir_id.s) < StrRank(b.reservoir_id.s)
                   \/ /\ a.reservoir_id = b.reservoir_id
                      /\ a.date < b.date)

\* diff without the groupby: the difference from the row above.
diff_ungrouped(per, i) ==
    IF i = 1 THEN JNaN
    ELSE round(fsub(per[i].storage_taf, per[i - 1].storage_taf))

\* per_res.groupby("reservoir_id")["storage_taf"].diff().round(3) at row i:
\* the difference from the previous row of the same reservoir, NaN if none.
diff(per, i) ==
    LET prev == {j \in 1..(i - 1) : per[j].reservoir_id = per[i].reservoir_id}
    IN  IF prev = {} THEN JNaN
        ELSE LET p == CHOOSE j \in prev : \A k \in prev : k <= j
             IN  round(fsub(per[i].storage_taf, per[p].storage_taf))

\* totals without the groupby: the sums of the whole frame.
totals_all(per, d) ==
    [total_taf |-> sum([i \in DOMAIN per |-> per[i].storage_taf]),
     total_af  |-> SumF([i \in DOMAIN per |-> per[i].storage_af], DOMAIN per)]

\* per_res.groupby("date").agg(total_taf=sum, total_af=sum) for date d
totals(per, d) ==
    LET I == {i \in DOMAIN per : per[i].date = d}
    IN  [total_taf |-> sum([i \in I |-> per[i].storage_taf]),
         total_af  |-> SumF([i \in I |-> per[i].storage_af], I)]

\* Lines 37-49: the frame written to the files.
build_report(rs) ==
    LET per == sort_values(agg(rs))
    IN  [i \in DOMAIN per |->
           LET tot == totals(per, per[i].date)
           IN  [date |-> per[i].date,
                reservoir_id |-> per[i].reservoir_id,
                storage_taf |-> per[i].storage_taf,
                storage_af |-> per[i].storage_af,
                delta_taf |-> diff(per, i),
                pct_of_total |-> pct(per[i].storage_taf, tot.total_taf),
                total_taf |-> tot.total_taf,
                total_af |-> tot.total_af]]

(***************************************************************************)
(* State                                                                   *)
(***************************************************************************)
VARIABLES
    rows,      \* DailyAggregator.rows, the store
    pc,        \* main: "loop" in sub.loop_forever(), "finally" at line 99,
               \* "mkdir" / "to_csv" / "to_json" inside write_report, "done"
    pending,   \* the exception in flight ("none" when there is none)
    calls,     \* how many times write_report has been entered
    ret,       \* what write_report returned: "unset", "None" or "paths"
    report,    \* write_report's local frame `report`
    out_dir,   \* whether the output directory exists
    csv,       \* Daily_WML_Report.csv
    json,      \* Daily_WML_Report.json
    sawBad,    \* "Bad message:" has been printed
    last,      \* outcome of the latest on_message: "none", "added", "bad"
    conn,      \* the subscriber's client: "new", "connected", "refused" or
               \* "subscribed"
    api,       \* the calls the Subscriber has made on its client, in order
    lastTopic, \* msg.topic of the latest on_message (<<>> before the first)
    prev,      \* what the previous write_report call left, for a caller
               \* that calls it again
    files,     \* publisher: the content of each input file of --csv-dir
    fidx,      \* publisher: the position of main's loop in RESERVOIR_TOPICS
    published, \* publisher: the messages handed to client.publish, in order
    pub_pc     \* publisher: "loop", "disconnected" or "crashed"

subVars  == <<rows, pc, pending, calls, ret, report, out_dir, csv, json, sawBad, last>>
connVars == <<conn, api, lastTopic>>
pubVars  == <<files, fidx, published, pub_pc>>
vars == <<subVars, connVars, prev, pubVars>>

\* A report file: absent, cut short by a failed write, or complete.
NoFile       == [state |-> "absent",   data |-> <<>>]
Partial      == [state |-> "partial",  data |-> <<>>]
Complete(df) == [state |-> "complete", data |-> df]

\* report.to_csv(csv_path, index=False): the header line and one line per row.
to_csv(df) == Complete(df)

\* report.to_json(json_path, orient="records", ...): one object per row.
to_json(df) == Complete(df)

\* No earlier write_report call to compare with.
NoPrev == [rows |-> <<>>, report |-> <<>>, csv |-> NoFile, json |-> NoFile,
           returned |-> "unset"]

\* RESERVOIR_TOPICS: the publisher's input files, in the dict's order, and
\* the topic of each as <<reservoir, "WML">>.
FileNames == <<"Shasta_WML(Sample),.csv", "Oroville_WML(Sample),.csv",
               "Sonoma_WML(Sample),.csv">>
RESERVOIR_TOPICS ==
    [f \in {FileNames[i] : i \in DOMAIN FileNames} |->
        CASE f = FileNames[1] -> <<"SHASTA", "WML">>
          [] f = FileNames[2] -> <<"OROVILLE", "WML">>
          [] OTHER            -> <<"SONOMA", "WML">>]

\* An input file: not there, there but not a Date/TAF table, or a table of
\* (date, taf) lines, taf in thousandths of a TAF.
MissingFile   == [state |-> "missing",   lines |-> <<>>]
MalformedFile == [state |-> "malformed", lines |-> <<>>]
CsvFile(ls)   == [state |-> "ok",        lines |-> ls]

\* The subscriber after Subscriber.__init__, with main about to receive: no
\* call has been made on the client yet.
SubInit ==
    /\ rows = <<>>
    /\ pc = "loop"
    /\ pending = "none"
    /\ calls = 0
    /\ ret = "unset"
    /\ report = <<>>
    /\ out_dir = FALSE
    /\ csv = NoFile
    /\ json = NoFile
    /\ sawBad = FALSE
    /\ last = "none"
    /\ conn = "new"
    /\ api = <<>>
    /\ lastTopic = <<>>
    /\ prev = NoPrev

\* The publisher at the head of its loop over RESERVOIR_TOPICS.
PubStart ==
    /\ fidx = 1
    /\ published = <<>>
    /\ pub_pc = "loop"

Init ==
    /\ SubInit
    /\ files = [f \in DOMAIN RESERVOIR_TOPICS |-> MissingFile]
    /\ PubStart

\* The steps of one process leave the rest alone.
SubscriberStep == UNCHANGED <<connVars, prev, pubVars>>

(***************************************************************************)
(* Subscriber.on_message, called by the client inside loop_forever          *)
(***************************************************************************)
\* on_message called from a network thread of its own (client.loop_start()),
\* which keeps delivering while main is in write_report.
on_message_threaded(p) ==
    /\ pc # "done"
    /\ LET r == IF p.json THEN add_message(rows, p)
                ELSE [raised |-> TRUE, rows |-> rows]
       IN  /\ Len(r.rows) <= MaxMsgs
           /\ rows' = r.rows
           /\ sawBad' = (sawBad \/ r.raised)
           /\ last' = IF r.raised THEN "bad" ELSE "added"
    /\ UNCHANGED <<pc, pending, calls, ret, report, out_dir, csv, json>>

\* loop_forever runs the callbacks in main's own thread: a message is
\* handled only while main is inside sub.loop_forever().
on_message(p) ==
    /\ pc = "loop"
    /\ LET r == IF p.json THEN add_message(rows, p)
                ELSE [raised |-> TRUE, rows |-> rows]
       IN  /\ Len(r.rows) <= MaxMsgs
           /\ rows' = r.rows
           /\ sawBad' = (sawBad \/ r.raised)
           /\ last' = IF r.raised THEN "bad" ELSE "added"
    /\ UNCHANGED <<pc, pending, calls, ret, report, out_dir, csv, json>>

OnMessage == \E p \in Payloads : on_message(p)

(***************************************************************************)
(* main: try: sub.loop_forever()  finally: sub.agg.write_report(...)        *)
(***************************************************************************)
\* main without the finally clause: an exception leaves main at once.
LoopEndsNoFinally(exc) ==
    /\ pc = "loop"
    /\ pc' = IF exc = "none" THEN "finally" ELSE "done"
    /\ pending' = exc
    /\ UNCHANGED <<rows, calls, ret, report, out_dir, csv, json, sawBad, last>>

\* loop_forever ends with `exc` in flight ("none": it returned).
LoopEnds(exc) ==
    /\ pc = "loop"
    /\ pc' = "finally"
    /\ pending' = exc
    /\ UNCHANGED <<rows, calls, ret, report, out_dir, csv, json, sawBad, last>>

\* Ctrl-C while receiving.
Interrupt == LoopEnds("KeyboardInterrupt")
\* The client was stopped and loop_forever returned.
Stop == LoopEnds("none")
\* An error escaped the receive loop.
LoopError == LoopEnds("Exception")

\* write_report creating the directory before it looks at the store.
WriteReportNoneMkdir ==
    /\ pc = "finally"
    /\ rows = <<>>
    /\ calls' = calls + 1
    /\ ret' = "None"
    /\ out_dir' = TRUE
    /\ pc' = "done"
    /\ UNCHANGED <<rows, pending, report, csv, json, sawBad, last>>

\* write_report, lines 35-36: nothing stored, nothing written.
WriteReportNone ==
    /\ pc = "finally"
    /\ rows = <<>>
    /\ calls' = calls + 1
    /\ ret' = "None"
    /\ pc' = "done"
    /\ UNCHANGED <<rows, pending, report, out_dir, csv, json, sawBad, last>>

\* write_report that empties the store once the frame is built.
WriteReportBuildClears ==
    /\ pc = "finally"
    /\ rows # <<>>
    /\ calls' = calls + 1
    /\ report' = build_report(rows)
    /\ rows' = <<>>
    /\ pc' = "mkdir"
    /\ UNCHANGED <<pending, ret, out_dir, csv, json, sawBad, last>>

\* write_report, lines 37-49.
WriteReportBuild ==
    /\ pc = "finally"
    /\ rows # <<>>
    /\ calls' = calls + 1
    /\ report' = build_report(rows)
    /\ pc' = "mkdir"
    /\ UNCHANGED <<rows, pending, ret, out_dir, csv, json, sawBad, last>>

\* An OSError leaves write_report and main.
Fails ==
    /\ pending' = "OSError"
    /\ pc' = "done"

\* Line 50: out_dir.mkdir(parents=True, exist_ok=True)
Mkdir ==
    /\ pc = "mkdir"
    /\ \/ out_dir' = TRUE /\ pc' = "to_csv" /\ UNCHANGED pending
       \/ Fails /\ UNCHANGED out_dir
    /\ UNCHANGED <<rows, calls, ret, report, csv, json, sawBad, last>>

\* Line 53: report.to_csv(csv_path, index=False)
ToCsv ==
    /\ pc = "to_csv"
    /\ \/ csv' = to_csv(report) /\ pc' = "to_json" /\ UNCHANGED pending
       \/ Fails /\ csv' \in {csv, Partial}
    /\ UNCHANGED <<rows, calls, ret, report, out_dir, json, sawBad, last>>

\* Lines 54-56: report.to_json(...), then return the two paths.
ToJson ==
    /\ pc = "to_json"
    /\ \/ json' = to_json(report) /\ pc' = "done" /\ ret' = "paths" /\ UNCHANGED pending
       \/ Fails /\ json' \in {json, Partial} /\ UNCHANGED ret
    /\ UNCHANGED <<rows, calls, report, out_dir, csv, sawBad, last>>

Next ==
    \/ OnMessage /\ SubscriberStep
    \/ Interrupt /\ SubscriberStep
    \/ Stop /\ SubscriberStep
    \/ LoopError /\ SubscriberStep
    \/ WriteReportNone /\ SubscriberStep
    \/ WriteReportBuild /\ SubscriberStep
    \/ Mkdir /\ SubscriberStep
    \/ ToCsv /\ SubscriberStep
    \/ ToJson /\ SubscriberStep

Spec == Init /\ [][Next]_vars

(***************************************************************************)
(* Subscriber's callbacks, driven by a client that has been connected.     *)
(* Subscriber.__init__ registers the callbacks and never calls             *)
(* client.connect: `api` starts empty and no step below adds a connect     *)
(* call.  ConnAck is the client library reporting the broker's answer to   *)
(* a connection made by other means.                                       *)
(***************************************************************************)
\* self.qos: the --qos default.
qos == 1

\* A topic or a topic filter, as its sequence of levels.
WmlFilter == <<"+", "WML">>

\* MQTT topic matching for filters with single-level wildcards.
Matches(f, t) ==
    /\ Len(f) = Len(t)
    /\ \A i \in DOMAIN f : f[i] = "+" \/ f[i] = t[i]

\* The topics messages are published on: two reservoirs' WML topics and a
\* topic of another kind.
ConnTopics == {<<"SHASTA", "WML">>, <<"OROVILLE", "WML">>, <<"SHASTA", "TEMP">>}

\* The payloads such messages carry: whoever publishes chooses the payload
\* and the topic independently.
ConnPayloads ==
    { Obj(JStr("SHASTA"),   T1, JNum(1), JNum(1)),
      Obj(JStr("OROVILLE"), T1, JNum(0), JNum(0)),
      NotJson }

\* client.subscribe(filter, qos=...)
Subscribe(f) == [call |-> "subscribe", filter |-> f, qos |-> qos]

\* The broker answered a connection attempt: accepted or refused.  The
\* client library calls on_connect in both cases.
ConnAck(ok) ==
    /\ pc = "loop"
    /\ conn = "new"
    /\ Len(api) < MaxConnects
    /\ conn' = IF ok THEN "connected" ELSE "refused"
    /\ UNCHANGED <<subVars, api, lastTopic, prev, pubVars>>

Accepted == ConnAck(TRUE)
Refused == ConnAck(FALSE)

\* on_connect subscribing to one reservoir's topic by name.
on_connect_named ==
    /\ pc = "loop"
    /\ conn \in {"connected", "refused"}
    /\ api' = Append(api, Subscribe(<<"SHASTA", "WML">>))
    /\ conn' = IF conn = "connected" THEN "subscribed" ELSE "new"
    /\ UNCHANGED <<subVars, lastTopic, prev, pubVars>>

\* Subscriber.on_connect: one subscribe call, whatever the reason code.
on_connect ==
    /\ pc = "loop"
    /\ conn \in {"connected", "refused"}
    /\ api' = Append(api, Subscribe(WmlFilter))
    /\ conn' = IF conn = "connected" THEN "subscribed" ELSE "new"
    /\ UNCHANGED <<subVars, lastTopic, prev, pubVars>>

\* The connection drops; loop_forever will reconnect.
ConnectionLost ==
    /\ pc = "loop"
    /\ conn = "subscribed"
    /\ conn' = "new"
    /\ UNCHANGED <<subVars, api, lastTopic, prev, pubVars>>

\* The broker forwards a message published on topic t: t matches the
\* filter subscribed to on this connection.  on_message does not read
\* msg.topic.
Deliver(t, p) ==
    /\ conn = "subscribed"
    /\ Matches(api[Len(api)].filter, t)
    /\ on_message(p)
    /\ lastTopic' = t
    /\ UNCHANGED <<conn, api, prev, pubVars>>

Delivery == \E t \in ConnTopics, p \in ConnPayloads : Deliver(t, p)

NextConn ==
    \/ Accepted
    \/ Refused
    \/ on_connect
    \/ ConnectionLost
    \/ Delivery
    \/ Interrupt /\ SubscriberStep
    \/ LoopError /\ SubscriberStep
    \/ WriteReportNone /\ SubscriberStep
    \/ WriteReportBuild /\ SubscriberStep
    \/ Mkdir /\ SubscriberStep
    \/ ToCsv /\ SubscriberStep
    \/ ToJson /\ SubscriberStep

SpecConn == Init /\ [][NextConn]_vars

(***************************************************************************)
(* mqtt_publishers.py: main's loop over RESERVOIR_TOPICS                   *)
(***************************************************************************)
\* A line of an input file: the day number of its Date and its TAF in
\* thousandths, the unit in which wml_taf is written in the payloads above.
Line(d, taf) == [date |-> d, taf |-> taf]

\* What a file of --csv-dir may be in a checked run.
FileContents ==
    { MissingFile,
      MalformedFile,
      CsvFile(<<Line(1, 1)>>),
      CsvFile(<<Line(3, 2), Line(1, 0)>>) }

\* tz.localize(datetime(y, m, d)).isoformat() for the days of the sample.
isoformat(d) == CASE d = 1 -> T1 [] d = 3 -> T3 [] OTHER -> JStr("other")

\* int(round(row["taf"] * 1000)), taf given in thousandths.
wml_af(taf) == RoundHalfEven(taf * 1000, 1000)

\* Lines 61-73: the messages published for one file, in date order.
messages(f) ==
    LET topic == RESERVOIR_TOPICS[f]
        df == SortSeq(files[f].lines, LAMBDA a, b : a.date < b.date)
    IN  [i \in DOMAIN df |->
           [topic |-> topic,
            payload |-> Obj(JStr(topic[1]), isoformat(df[i].date),
                            JNum(df[i].taf), JNum(wml_af(df[i].taf)))]]

\* The publisher's steps leave the subscriber and the files alone.
PublisherStep == UNCHANGED <<subVars, connVars, prev, files>>

\* Lines 57-59: the file is not there: a warning, and on to the next.
SkipMissing ==
    /\ pub_pc = "loop"
    /\ fidx <= Len(FileNames)
    /\ files[FileNames[fidx]].state = "missing"
    /\ fidx' = fidx + 1
    /\ UNCHANGED <<published, pub_pc>>
    /\ PublisherStep

\* Line 60: load_csv raises on a file that is no Date/TAF table; nothing
\* catches it and main ends there.
LoadFails ==
    /\ pub_pc = "loop"
    /\ fidx <= Len(FileNames)
    /\ files[FileNames[fidx]].state = "malformed"
    /\ pub_pc' = "crashed"
    /\ UNCHANGED <<published, fidx>>
    /\ PublisherStep

\* Lines 60-74: the file is read and every line of it published.
PublishFile ==
    /\ pub_pc = "loop"
    /\ fidx <= Len(FileNames)
    /\ files[FileNames[fidx]].state = "ok"
    /\ published' = published \o messages(FileNames[fidx])
    /\ fidx' = fidx + 1
    /\ UNCHANGED pub_pc
    /\ PublisherStep

\* Line 75: client.disconnect() after the loop.
Disconnect ==
    /\ pub_pc = "loop"
    /\ fidx > Len(FileNames)
    /\ pub_pc' = "disconnected"
    /\ UNCHANGED <<published, fidx>>
    /\ PublisherStep

InitPub ==
    /\ SubInit
    /\ files \in [DOMAIN RESERVOIR_TOPICS -> FileContents]
    /\ PubStart

NextPub ==
    \/ SkipMissing
    \/ LoadFails
    \/ PublishFile
    \/ Disconnect

SpecPub == InitPub /\ [][NextPub]_vars

(***************************************************************************)
(* DailyAggregator used as a library: a caller that adds messages and      *)
(* calls write_report more than once                                       *)
(***************************************************************************)
\* The payloads such a caller's messages carry.
ApiPayloads ==
    { Obj(JStr("SHASTA"),   T1, JNum(0), JNum(0)),
      Obj(JStr("SHASTA"),   T1, JNum(1), JNum(1)),
      Obj(JStr("OROVILLE"), U2, JNum(2), JNum(3)),
      NotJson }

ApiDeliver == \E p \in ApiPayloads : on_message(p)

\* The caller enters write_report.
ApiCall == LoopEnds("none")

\* The call is over (returned, or raised to a caller that goes on): the
\* caller keeps what the call left and is free to add messages or to call
\* write_report again.
ApiReturn ==
    /\ pc = "done"
    /\ calls < MaxCalls
    /\ prev' = [rows |-> rows, report |-> report, csv |-> csv, json |-> json,
                returned |-> IF pending = "none" THEN ret ELSE "raised"]
    /\ pc' = "loop"
    /\ pending' = "none"
    /\ ret' = "unset"
    /\ UNCHANGED <<rows, calls, report, out_dir, csv, json, sawBad, last>>
    /\ UNCHANGED <<connVars, pubVars>>

NextApi ==
    \/ ApiDeliver /\ SubscriberStep
    \/ ApiCall /\ SubscriberStep
    \/ WriteReportNone /\ SubscriberStep
    \/ WriteReportBuild /\ SubscriberStep
    \/ Mkdir /\ SubscriberStep
    \/ ToCsv /\ SubscriberStep
    \/ ToJson /\ SubscriberStep
    \/ ApiReturn

SpecApi == Init /\ [][NextApi]_vars

(***************************************************************************)
(* Properties                                                              *)
(***************************************************************************)
\* write_report has built its frame from a non-empty store.
Built == calls = 1 /\ rows # <<>>

KeyOf(r) == <<r.date, r.reservoir_id>>

\* The stored entries of the group (d, r).
Stored(d, r) == {i \in DOMAIN rows : rows[i].date = d /\ rows[i].reservoir_id = r}

\* The arithmetic mean of the storage_taf values present in a set of stored
\* entries (a NaN reading is a missing value), NaN when none is present.
IsMeanOf(x, I) ==
    LET J == {i \in I : rows[i].storage_taf.t = "num"}
    IN  IF J = {} THEN x = JNaN
        ELSE /\ x.t = "num"
             /\ x.n * Cardinality(J) = SumF([i \in J |-> rows[i].storage_taf.n], J)

\* C1: the report has exactly one row for every (day, reservoirId) pair in
\* the store and no other row, and the row's storage_taf is the arithmetic
\* mean of the storage_taf of all stored messages of the pair.
C1_OneRowPerStoredPair ==
    Built =>
      /\ \A i \in DOMAIN rows :
            Cardinality({k \in DOMAIN report : KeyOf(report[k]) = KeyOf(rows[i])}) = 1
      /\ \A k \in DOMAIN report :
            /\ Stored(report[k].date, report[k].reservoir_id) # {}
            /\ IsMeanOf(report[k].storage_taf,
                        Stored(report[k].date, report[k].reservoir_id))

\* The rows of the same reservoir on an earlier day.
Earlier(k) == {j \in DOMAIN report : /\ report[j].reservoir_id = report[k].reservoir_id
                                     /\ report[j].date < report[k].date}

\* The row of the same reservoir on the latest earlier day.
Preceding(k) == CHOOSE j \in Earlier(k) : \A i \in Earlier(k) : report[i].date <= report[j].date

\* C2: the row of a reservoir's earliest day has a null delta_taf; every
\* other row has delta_taf = round(its storage_taf - the storage_taf of the
\* same reservoir's row on the latest earlier day in the report, 3).
C2_DeltaFromPrecedingRow ==
    Built =>
      \A k \in DOMAIN report :
         IF Earlier(k) = {} THEN report[k].delta_taf = JNaN
         ELSE report[k].delta_taf =
                 round(fsub(report[k].storage_taf, report[Preceding(k)].storage_taf))

\* A reservoir has rows two or more days apart, another reservoir has a row
\* on a day in between, and the later row carries a non-zero delta.
C2_Witness ==
    /\ Built
    /\ \E k \in DOMAIN report :
         /\ Earlier(k) # {}
         /\ report[k].date - report[Preceding(k)].date >= 2
         /\ report[k].delta_taf.t = "num"
         /\ report[k].delta_taf.n # 0
         /\ \E j \in DOMAIN report :
              /\ report[j].reservoir_id # report[k].reservoir_id
              /\ report[j].date > report[Preceding(k)].date
              /\ report[j].date < report[k].date

\* The rows of the day of row k.
SameDay(k) == {j \in DOMAIN report : report[j].date = report[k].date}

\* C3: every row carries as total_taf and total_af the sums of the
\* storage_taf and storage_af of exactly the rows of its day (a row whose
\* storage_taf is missing contributes nothing to total_taf).
C3_TotalsArePerDaySums ==
    Built =>
      \A k \in DOMAIN report :
         LET D == SameDay(k)
             N == {j \in D : report[j].storage_taf.t = "num"}
         IN  /\ report[k].total_taf =
                   JNum(SumF([j \in N |-> report[j].storage_taf.n], N))
             /\ report[k].total_af = SumF([j \in D |-> report[j].storage_af], D)

\* One day has two reservoirs with non-zero storage, another day
\* has a single reservoir whose total is its own storage.
C3_Witness ==
    /\ Built
    /\ \E k, j \in DOMAIN report :
         /\ j \in SameDay(k) /\ j # k
         /\ report[k].storage_taf.t = "num" /\ report[j].storage_taf.t = "num"
         /\ report[k].storage_taf.n > 0 /\ report[j].storage_taf.n > 0
    /\ \E k \in DOMAIN report :
         /\ SameDay(k) = {k}
         /\ report[k].total_taf = report[k].storage_taf
         /\ report[k].total_taf.n > 0

\* The row of the frame R with the key of row x, as a set (empty if none).
RowsOf(R, x) == {R[j] : j \in {i \in DOMAIN R : KeyOf(R[i]) = KeyOf(x)}}

\* C4 as stated: when a message is added, every row of the old report whose
\* (day, reservoirId) group did not receive it is in the new report with all
\* its fields unchanged.
C4_UntouchedRowsUnchanged ==
    [][rows' # rows =>
         LET m  == rows'[Len(rows')]
             R  == build_report(rows)
             R2 == build_report(rows')
         IN  \A i \in DOMAIN R :
                KeyOf(R[i]) # KeyOf(m) => RowsOf(R2, R[i]) = {R[i]}]_vars

\* C4 as amended: such a row keeps its date, reservoir_id, storage_taf and
\* storage_af; it keeps total_taf, total_af and pct_of_total when the new
\* message is of another day, and delta_taf when the new message is of
\* another reservoir or of a later day.
C4_UntouchedRowsKeepOwnFields ==
    [][rows' # rows =>
         LET m  == rows'[Len(rows')]
             R  == build_report(rows)
             R2 == build_report(rows')
         IN  \A i \in DOMAIN R :
                KeyOf(R[i]) # KeyOf(m) =>
                  \E x \in RowsOf(R2, R[i]) :
                     /\ RowsOf(R2, R[i]) = {x}
                     /\ x.storage_taf = R[i].storage_taf
                     /\ x.storage_af = R[i].storage_af
                     /\ m.date # R[i].date =>
                          /\ x.total_taf = R[i].total_taf
                          /\ x.total_af = R[i].total_af
                          /\ x.pct_of_total = R[i].pct_of_total
                     /\ (m.reservoir_id # R[i].reservoir_id \/ m.date > R[i].date) =>
                          x.delta_taf = R[i].delta_taf]_vars

\* The latest message went to a group of its own on a day, and before a
\* later day, on which the store already had another group of the same
\* reservoir or day.
C4_Witness ==
    /\ last = "added"
    /\ pc = "loop"
    /\ Len(rows) >= 2
    /\ LET m == rows[Len(rows)]
       IN  /\ ~isna(m.reservoir_id)
           /\ \A i \in 1..(Len(rows) - 1) : KeyOf(rows[i]) # KeyOf(m)
           /\ \E i \in 1..(Len(rows) - 1) :
                 rows[i].date = m.date /\ ~isna(rows[i].reservoir_id)
           /\ \E i \in 1..(Len(rows) - 1) :
                 rows[i].reservoir_id = m.reservoir_id /\ rows[i].date > m.date

\* C5: on a day on which every reporting reservoir has storage_taf exactly 0,
\* every row has pct_of_total 0.
C5_ZeroDayHasZeroPct ==
    Built =>
      \A k \in DOMAIN report :
         (\A j \in SameDay(k) : report[j].storage_taf = JNum(0))
            => report[k].pct_of_total = JNum(0)

\* C6: with an empty store write_report returns None, writes neither file
\* and creates no directory; a directory or file exists only when the store
\* is non-empty.
C6_EmptyStoreWritesNothing ==
    /\ rows = <<>> => /\ csv = NoFile /\ json = NoFile /\ ~out_dir
                      /\ ret # "paths"
                      /\ report = <<>>
    /\ (rows = <<>> /\ calls > 0) => ret = "None" /\ pc = "done"
    /\ (out_dir \/ csv # NoFile \/ json # NoFile \/ ret = "paths") => rows # <<>>

\* Every received payload failed decoding and main has run write_report.
C6_Witness == rows = <<>> /\ sawBad /\ pc = "done" /\ ret = "None"

C8_BadPayloadDiscarded ==
    /\ [][\A p \in BadPayloads :
            on_message(p) => /\ rows' = rows
                             /\ pc' = "loop"
                             /\ pending' = pending]_vars
    /\ [](pc = "loop" /\ Len(rows) < MaxMsgs =>
            \A p \in GoodPayloads : ENABLED on_message(p))
    /\ [][\A p \in GoodPayloads :
            on_message(p) => /\ Len(rows') = Len(rows) + 1
                             /\ SubSeq(rows', 1, Len(rows)) = rows
                             /\ rows'[Len(rows')].reservoir_id = p.reservoir_id]_vars

\* A valid message was added after a payload had been discarded.
C8_Witness == sawBad /\ last = "added" /\ pc = "loop"

\* The calendar date of an instant in the aggregator's timezone.
tz_date(ts) == (ts.utc + tz) \div 24

\* C9: a stored message is filed under the date of its instant in self.tz.
C9_FiledUnderTzDate ==
    [][\A p \in Payloads :
         (on_message(p) /\ rows' # rows) =>
            rows'[Len(rows')].date = tz_date(to_datetime(p.timestamp))]_vars

\* C10: every stored entry has a non-empty string reservoir id and a finite
\* storage_taf.
C10_StoredEntriesValid ==
    \A i \in DOMAIN rows :
       /\ rows[i].reservoir_id.t = "str"
       /\ rows[i].reservoir_id.s # ""
       /\ rows[i].storage_taf.t = "num"

\* C12: the rows of the report are in ascending order of reservoirId, and
\* the rows of one reservoir are in strictly ascending order of day.
C12_RowsSortedByReservoirThenDay ==
    Built =>
      \A i, j \in DOMAIN report :
         i < j =>
            \/ StrRank(report[i].reservoir_id.s) < StrRank(report[j].reservoir_id.s)
            \/ /\ report[i].reservoir_id = report[j].reservoir_id
               /\ report[i].date < report[j].date

\* Three rows of two reservoirs, stored neither in reservoir nor in day
\* order: the later day of the greater reservoir first, the smaller
\* reservoir second, the earlier day of the greater reservoir last.
C12_Witness ==
    /\ Built
    /\ Len(rows) = 3
    /\ Len(report) = 3
    /\ rows[1].reservoir_id = rows[3].reservoir_id
    /\ rows[1].date > rows[3].date
    /\ rows[2].date > rows[3].date
    /\ StrRank(rows[2].reservoir_id.s) < StrRank(rows[1].reservoir_id.s)

\* The sum of the pct_of_total values present in the rows of row k's day, in
\* hundredths of a percent (a NaN cell is a missing value).
PctSum(k) ==
    LET I == {j \in SameDay(k) : report[j].pct_of_total.t = "num"}
    IN  SumF([j \in I |-> report[j].pct_of_total.n], I)

\* |x - 100| <= 0.1, x in hundredths of a percent.
Near100(x) == x >= 10000 - 10 /\ x <= 10000 + 10

\* C13 as stated: for every day of the report, the pct_of_total values of
\* the day's rows sum to 100 within 0.1.
C13_PctSumsTo100 ==
    Built => \A k \in DOMAIN report : Near100(PctSum(k))

\* C13, amended: for every day of the report whose total_taf is not zero and
\* which has at most 20 rows, every row with a storage_taf has a
\* pct_of_total and the values present sum to 100 within 0.1.
C13_PctSumsTo100OnNonZeroDay ==
    Built =>
      \A k \in DOMAIN report :
         (report[k].total_taf.n # 0 /\ Cardinality(SameDay(k)) <= 20) =>
            /\ Near100(PctSum(k))
            /\ \A j \in SameDay(k) :
                  report[j].storage_taf.t = "num" => report[j].pct_of_total.t = "num"

\* A day of three reservoirs with equal storage: the rounded shares sum to
\* 99.99, not to 100.
C13_Witness ==
    /\ Built
    /\ \E k \in DOMAIN report :
          /\ Cardinality(SameDay(k)) = 3
          /\ report[k].total_taf.n # 0
          /\ PctSum(k) # 10000

\* C14: whenever no write_report call is under way, one that failed
\* part-way through included, either both report files exist in full with
\* the same report data or neither exists; one file present and the other
\* absent is unreachable.
C14_FilesWrittenTogether ==
    pc \in {"loop", "finally", "done"} =>
       \/ csv = NoFile /\ json = NoFile
       \/ /\ csv.state = "complete"
          /\ json.state = "complete"
          /\ csv.data = json.data

\* The sum and the number of the stored storage_af values of row k's group.
AfSum(k) ==
    LET I == Stored(report[k].date, report[k].reservoir_id)
    IN  SumF([i \in I |-> rows[i].storage_af], I)
AfCount(k) == Cardinality(Stored(report[k].date, report[k].reservoir_id))

\* total_af of every row is the sum of the rounded storage_af of its day.
TotalAfSumsRounded ==
    \A k \in DOMAIN report :
       report[k].total_af =
          SumF([j \in SameDay(k) |-> report[j].storage_af], SameDay(k))

\* C18 as stated: storage_af is the mean of the group's storage_af values
\* rounded to the nearest integer, exact halves away from zero (0 and 1
\* give 1), and total_af sums the rounded values.
C18_StorageAfRoundsHalfAwayFromZero ==
    Built =>
      /\ \A k \in DOMAIN report :
            report[k].storage_af = RoundHalfAway(AfSum(k), AfCount(k))
      /\ TotalAfSumsRounded

\* C18, amended: storage_af is an integer nearest to the mean of the group's
\* storage_af values, the even one of the two when the mean is an exact half
\* (0 and 1 give 0), and total_af sums the rounded values.
C18_StorageAfRoundsHalfToEven ==
    Built =>
      /\ \A k \in DOMAIN report :
            LET x == report[k].storage_af
                e == 2 * (x * AfCount(k) - AfSum(k))
            IN  /\ e <= AfCount(k)
                /\ 0 - e <= AfCount(k)
                /\ (e = AfCount(k) \/ 0 - e = AfCount(k)) => x % 2 = 0
      /\ TotalAfSumsRounded

\* A group of two stored values whose mean is an exact half, in a report
\* with another row on the same day.
C18_Witness ==
    /\ Built
    /\ \E k \in DOMAIN report :
          /\ AfCount(k) = 2
          /\ AfSum(k) % 2 = 1
          /\ Cardinality(SameDay(k)) = 2

\* main is inside a write_report call.
InWriteReport == pc \in {"finally", "mkdir", "to_csv", "to_json"}

\* C19: the store changes only on the message-delivery path while main is
\* receiving; once the receive loop has ended it is not entered again, and
\* from the start to the end of write_report no on_message can execute, so
\* the frame write_report built stays the report of the store.
C19_NoDeliveryDuringWriteReport ==
    /\ [][rows' # rows => (pc = "loop" /\ pc' = "loop" /\ last' = "added")]_vars
    /\ [][pc # "loop" => pc' # "loop"]_vars
    /\ [](InWriteReport => \A p \in Payloads : ~ENABLED on_message(p))
    /\ []((pc \in {"mkdir", "to_csv", "to_json"}) => report = build_report(rows))

\* Messages were stored, delivery has stopped, and write_report is between
\* its two file writes.
C19_Witness ==
    /\ pc = "to_json"
    /\ last = "added"
    /\ Len(rows) >= 2

\* C11: write_report does not modify the store, and a write_report call that
\* returns after an earlier one returned, with no message added to the store
\* in between, leaves the same report (rows, order, field values) and the
\* same contents in both files as the earlier call did.
C11_WriteReportIdempotent ==
    /\ [][InWriteReport => (rows' = rows)]_vars
    /\ []((/\ pc = "done" /\ pending = "none" /\ ret = "paths"
           /\ prev.returned = "paths" /\ rows = prev.rows)
          => (report = prev.report /\ csv = prev.csv /\ json = prev.json))
    /\ []((/\ pc = "done" /\ pending = "none" /\ prev.returned # "unset"
           /\ prev.returned # "raised" /\ rows = prev.rows)
          => ret = prev.returned)

\* The second of two calls on the same two-row store has returned its paths.
C11_Witness ==
    /\ calls = 2
    /\ pc = "done"
    /\ ret = "paths"
    /\ prev.returned = "paths"
    /\ rows = prev.rows
    /\ Len(rows) = 2
    /\ Len(report) = 2

\* C16: each time the client becomes connected the subscriber makes exactly
\* one subscribe call, to the filter '+/WML' at the configured QoS; every
\* subscribe call it ever makes is that one, made in on_connect; and the
\* filter matches every reservoir topic without naming a reservoir.
C16_OneWildcardSubscription ==
    /\ [][(conn = "connected" /\ conn' # conn) =>
             (conn' = "subscribed" /\ api' = Append(api, Subscribe(WmlFilter)))]_vars
    /\ [][api' # api =>
             (conn \in {"connected", "refused"} /\ Len(api') = Len(api) + 1)]_vars
    /\ [](\A i \in DOMAIN api :
             /\ api[i].call = "subscribe"
             /\ api[i].filter = <<"+", "WML">>
             /\ api[i].qos = qos)
    /\ [](conn = "subscribed" =>
             \A f \in DOMAIN RESERVOIR_TOPICS :
                Matches(api[Len(api)].filter, RESERVOIR_TOPICS[f]))

\* The client was connected, lost the connection, was connected again and
\* has subscribed again; messages of two reservoirs have arrived.
C16_Witness ==
    /\ conn = "subscribed"
    /\ Len(api) = 2
    /\ \E i, j \in DOMAIN rows : rows[i].reservoir_id # rows[j].reservoir_id

\* C17: a Subscriber that has been constructed with a broker and a port and
\* started (main is in loop_forever) has initiated a connection: a connect
\* call has been made on its client.
C17_ConnectionInitiated ==
    pc = "loop" => \E i \in DOMAIN api : api[i].call = "connect"

\* C20: the reservoir id of a stored message is the first level of the topic
\* it was delivered on, whatever the payload says.
C20_StoredIdIsTopicSegment ==
    (last = "added" /\ lastTopic # <<>>) =>
        rows[Len(rows)].reservoir_id = JStr(lastTopic[1])

\* C15: a missing or malformed input file is skipped and the run goes on:
\* the publisher never ends without a disconnect, and when it has ended
\* every line of every readable file has been published on the file's
\* topic.
C15_SourceReadErrorsRecovered ==
    /\ pub_pc # "crashed"
    /\ pub_pc = "disconnected" =>
          \A f \in DOMAIN RESERVOIR_TOPICS :
             files[f].state = "ok" =>
                Cardinality({i \in DOMAIN published :
                                published[i].topic = RESERVOIR_TOPICS[f]})
                   = Len(files[f].lines)

====
